---- MODULE Spec2Model ----
(***************************************************************************)
(* State-machine model of optimize_ifc (src/src/optimizer.py): an entity   *)
(* graph held by an ifcopenshell file object, the option dictionary, and   *)
(* the sequence of optimisation passes run over the graph; and of the      *)
(* window that starts it on a worker thread (src/gui.py).                  *)
(***************************************************************************)
EXTENDS Integers, Sequences, FiniteSets, TLC

VARIABLES
    ents,      \* the open model: entity id -> [type, refs, vals]
    maxId,     \* highest entity id handed out so far by the file object
    kernel,    \* element id -> what the geometry kernel answers for it
    faults,    \* entity ids on which a guarded library call raises
    options,   \* "None" or the option dict, a sequence of <<key, value>>
    pc,        \* position inside optimize_ifc
    stats,     \* the stats dict, a sequence of <<key, count>> in insertion order
    trace,     \* names of the steps executed so far in this call, in order
    pre,       \* the graph as it was when the last executed pass started
    lastPass,  \* stats key of the last executed pass ("" before the first)
    result,    \* "none", "returned" (stats handed back) or "raised"
    failedAt,  \* the step whose exception made the call raise ("" if none)
    saved,     \* "none" or the graph written to output_path
    tempFile,  \* whether temp_converted.ifc exists on disk
    run,       \* number of the current optimize_ifc call
    firstStats, \* stats returned by the first call
    files,     \* whether the input and output lines of the window are filled
    btnEnabled, \* whether optimize_btn is enabled
    modal,     \* the modal windows open over the main window
    threads,   \* the OptimizerThread objects created so far, in order
    queue,     \* signals queued for the main thread, oldest first
    printFn    \* builtins.print: 0 the original, i the thread_print of thread i

guiVars == <<files, btnEnabled, modal, threads, queue, printFn>>

vars == <<ents, maxId, kernel, faults, options, pc, stats, trace, pre,
          lastPass, result, failedAt, saved, tempFile, run, firstStats, guiVars>>

(***************************************************************************)
(* Bounds of the model.                                                    *)
(***************************************************************************)
MaxElems == 2     \* building elements in the loaded file
MaxHist == 2      \* IfcOwnerHistory records in the loaded file
MaxOpts == 2      \* keys in a caller-supplied option dict
MaxRuns == 2      \* consecutive optimize_ifc calls (output fed back as input)
HashBits == 2     \* modelled width of Python's hash() in bits
MaxPrints == 2    \* progress messages printed during one worker run

(***************************************************************************)
(* Generic helpers.                                                        *)
(***************************************************************************)
Range(s) == {s[i] : i \in 1..Len(s)}

Min(S) == CHOOSE x \in S : \A y \in S : x <= y

RECURSIVE SortedSeq(_)
SortedSeq(S) == IF S = {} THEN <<>> ELSE <<Min(S)>> \o SortedSeq(S \ {Min(S)})

Tail1(s) == IF Len(s) = 0 THEN <<>> ELSE Tail(s)

\* an entity with no attributes of one sort
NoAttrs == <<>>

(***************************************************************************)
(* The entity graph as the ifcopenshell file object exposes it.            *)
(* An entity is [type, refs, vals]: refs maps each reference attribute to  *)
(* the sequence of ids it holds (a null or empty attribute is <<>>), vals  *)
(* maps each scalar attribute to its value, written as Python would print  *)
(* it ("None", "", "0", "NOTDEFINED", "False", or a non-empty value).      *)
(***************************************************************************)
Supers(t) ==
    CASE t \in {"IfcWall", "IfcBeam"} -> {t, "IfcElement", "IfcProduct"}
      [] t \in {"IfcSpace", "IfcBuildingStorey"} ->
             {t, "IfcSpatialStructureElement", "IfcProduct"}
      [] OTHER -> {t}

\* entity.is_a(T)
IsA(g, e, T) == T \in Supers(g[e].type)

\* model.by_type(T): the live entities of type T or a subtype, in file order
ByType(g, T) == SortedSeq({e \in DOMAIN g : IsA(g, e, T)})

\* iterating the file object: every live entity, in file order
AllEntities(g) == SortedSeq(DOMAIN g)

\* the ids an entity's reference attributes hold
Targets(g, e) == UNION {Range(g[e].refs[a]) : a \in DOMAIN g[e].refs}

\* model.get_inverse(f): the entities holding a reference to f
Inverse(g, f) == {e \in DOMAIN g : f \in Targets(g, e)}

\* a removal that forgets to clear the referrers' attributes
RemoveKeepRefs(g, f) == [e \in DOMAIN g \ {f} |-> g[e]]

\* model.remove(f): f leaves the file; every attribute that held f is set to
\* null, or loses f when it is an aggregate.  The call is never refused.
Remove(g, f) ==
    [e \in DOMAIN g \ {f} |->
        [g[e] EXCEPT !.refs =
            [a \in DOMAIN g[e].refs |->
                SelectSeq(g[e].refs[a], LAMBDA x : x # f)]]]

\* model.create_entity / model.createIfc...: a new entity under a fresh id
Create(g, id, type, refs, vals) ==
    [e \in DOMAIN g \cup {id} |->
        IF e = id THEN [type |-> type, refs |-> refs, vals |-> vals] ELSE g[e]]

\* ifcopenshell.util.element.replace_attribute(inv, old, new)
ReplaceAttribute(g, inv, old, new) ==
    [g EXCEPT ![inv].refs =
        [a \in DOMAIN g[inv].refs |->
            [i \in 1..Len(g[inv].refs[a]) |->
                IF g[inv].refs[a][i] = old THEN new ELSE g[inv].refs[a][i]]]]

\* spatial.ContainsElements: the containment relationships naming it
ContainsElements(g, s) ==
    {r \in DOMAIN g : /\ g[r].type = "IfcRelContainedInSpatialStructure"
                      /\ s \in Range(g[r].refs["RelatingStructure"])}

(***************************************************************************)
(* Python dicts (options, stats) as sequences of <<key, value>> pairs in   *)
(* insertion order, keys distinct.                                         *)
(***************************************************************************)
Keys(d) == {d[i][1] : i \in 1..Len(d)}

Has(d, k) == k \in Keys(d)

\* d.get(k, default)
Get(d, k, default) ==
    IF Has(d, k) THEN d[CHOOSE i \in 1..Len(d) : d[i][1] = k][2] ELSE default

\* d[k] = v
Put(d, k, v) ==
    IF Has(d, k)
    THEN [i \in 1..Len(d) |-> IF d[i][1] = k THEN <<k, v>> ELSE d[i]]
    ELSE Append(d, <<k, v>>)

\* bool(v) for the values an option can hold
Truthy(v) == v \notin {"False", "None", "", "0"}

(***************************************************************************)
(* The removal passes.  Each takes the graph and gives back the mutated    *)
(* graph g and the count n the pass returns.                               *)
(***************************************************************************)
RECURSIVE RemoveAll(_, _)
RemoveAll(g, seq) ==
    IF seq = <<>> THEN g ELSE RemoveAll(Remove(g, Head(seq)), Tail(seq))

\* the referrer kinds remove_unused_spaces does not count as a use
ExemptKinds == {"IfcLocalPlacement", "IfcRelDefinesByProperties"}

\* a pruning that exempts no referrer kind: any referrer keeps the space
remove_unreferenced_spaces(g) ==
    LET spaces == ByType(g, "IfcSpace")
        unused == SelectSeq(spaces, LAMBDA s : Inverse(g, s) = {})
    IN  [g |-> RemoveAll(g, unused), n |-> Len(unused)]

\* ref.is_a((...)) with a tuple of names is read as "is one of these kinds"
remove_unused_spaces(g) ==
    LET spaces == ByType(g, "IfcSpace")
        unused == SelectSeq(spaces, LAMBDA s :
                      ~ \E ref \in Inverse(g, s) : g[ref].type \notin ExemptKinds)
    IN  [g |-> RemoveAll(g, unused), n |-> Len(unused)]

\* a trimming that removes every owner history
remove_metadata_all(g) ==
    LET owner_histories == ByType(g, "IfcOwnerHistory")
    IN  [g |-> RemoveAll(g, owner_histories), n |-> Len(owner_histories)]

remove_metadata(g) ==
    LET owner_histories == ByType(g, "IfcOwnerHistory")
    IN  [g |-> RemoveAll(g, Tail1(owner_histories)),
         n |-> Len(Tail1(owner_histories))]

\* the values remove_empty_attributes tests with `in`; False == 0 in Python
EmptyValues == {"", "None", "0", "0.0", "NOTDEFINED", "False"}

\* reference attributes that hold an aggregate (an emptied one reads as (),
\* a null single-valued one reads as None)
ListAttrs == {"RelatedObjects", "RelatedElements", "Representations", "Items",
              "HasProperties", "CfsFaces", "Polygon", "Bounds", "AssignedItems"}

\* the attributes of e that get_info reports with an empty value
EmptyAttrs(g, e) ==
    {a \in DOMAIN g[e].vals : g[e].vals[a] \in EmptyValues}
    \cup {a \in DOMAIN g[e].refs : a \notin ListAttrs /\ g[e].refs[a] = <<>>}

RECURSIVE SumEmpty(_, _)
SumEmpty(g, seq) ==
    IF seq = <<>> THEN 0
    ELSE Cardinality(EmptyAttrs(g, Head(seq))) + SumEmpty(g, Tail(seq))

remove_empty_attributes(g) ==
    [g |-> [e \in DOMAIN g |->
               [g[e] EXCEPT !.vals =
                   [a \in DOMAIN g[e].vals |->
                       IF g[e].vals[a] \in EmptyValues THEN "None"
                       ELSE g[e].vals[a]]]],
     n |-> SumEmpty(g, AllEntities(g))]

\* a loop that removes every empty property set, assigned or not
RECURSIVE PsetLoopEmpty(_, _, _, _)
PsetLoopEmpty(g, f, seq, removed) ==
    IF seq = <<>> THEN [g |-> g, n |-> removed]
    ELSE LET pset == Head(seq)
         IN  IF g[pset].refs["HasProperties"] = <<>>
             THEN PsetLoopEmpty(Remove(g, pset), f, Tail(seq), removed + 1)
             ELSE PsetLoopEmpty(g, f, Tail(seq), removed)

\* model.remove raises on the records of f; the passes that guard the call
\* with try/except print the error and go on to the next record
RECURSIVE PsetLoop(_, _, _, _)
PsetLoop(g, f, seq, removed) ==
    IF seq = <<>> THEN [g |-> g, n |-> removed]
    ELSE LET pset == Head(seq)
         IN  IF /\ g[pset].refs["HasProperties"] = <<>>
                /\ Inverse(g, pset) = {}
                /\ pset \notin f
             THEN PsetLoop(Remove(g, pset), f, Tail(seq), removed + 1)
             ELSE PsetLoop(g, f, Tail(seq), removed)

remove_unused_property_sets(g, f) ==
    PsetLoop(g, f, ByType(g, "IfcPropertySet"), 0)

\* a loop that removes every record of the kind, referenced or not
RECURSIVE UnreferencedLoopAll(_, _, _, _)
UnreferencedLoopAll(g, f, seq, removed) ==
    IF seq = <<>> THEN [g |-> g, n |-> removed]
    ELSE UnreferencedLoopAll(Remove(g, Head(seq)), f, Tail(seq), removed + 1)

\* the loop shared by remove_unused_materials and remove_unused_classifications
RECURSIVE UnreferencedLoop(_, _, _, _)
UnreferencedLoop(g, f, seq, removed) ==
    IF seq = <<>> THEN [g |-> g, n |-> removed]
    ELSE IF Inverse(g, Head(seq)) = {} /\ Head(seq) \notin f
         THEN UnreferencedLoop(Remove(g, Head(seq)), f, Tail(seq), removed + 1)
         ELSE UnreferencedLoop(g, f, Tail(seq), removed)

remove_unused_materials(g, f) ==
    UnreferencedLoop(g, f, ByType(g, "IfcMaterial"), 0)

remove_unused_classifications(g, f) ==
    UnreferencedLoop(g, f, ByType(g, "IfcClassificationReference"), 0)

\* volumes and thresholds are counted in units of 0.0001
RECURSIVE SmallLoop(_, _, _, _, _, _)
SmallLoop(g, k, f, seq, min_volume, removed) ==
    IF seq = <<>> THEN [g |-> g, n |-> removed]
    ELSE LET element == Head(seq)
         IN  IF /\ g[element].refs["Representation"] # <<>>
                /\ k[element].volOk
                /\ k[element].vol # 0
                /\ k[element].vol < min_volume
                /\ element \notin f
             THEN SmallLoop(Remove(g, element), k, f, Tail(seq), min_volume,
                            removed + 1)
             ELSE SmallLoop(g, k, f, Tail(seq), min_volume, removed)

remove_small_elements(g, k, f, min_volume) ==
    SmallLoop(g, k, f, ByType(g, "IfcElement"), min_volume, 0)

\* the orphans are collected first, then removed one by one inside a try; the
\* pass returns the length of the collected list
remove_orphaned_entities(g, f) ==
    LET orphans == SelectSeq(AllEntities(g), LAMBDA e :
                       /\ g[e].type \notin {"IfcProject", "IfcOwnerHistory"}
                       /\ Inverse(g, e) = {})
    IN  [g |-> RemoveAll(g, SelectSeq(orphans, LAMBDA e : e \notin f)),
         n |-> Len(orphans)]

RECURSIVE FlattenLoop(_, _, _, _)
FlattenLoop(g, f, seq, removed) ==
    IF seq = <<>> THEN [g |-> g, n |-> removed]
    ELSE IF ContainsElements(g, Head(seq)) = {} /\ Head(seq) \notin f
         THEN FlattenLoop(Remove(g, Head(seq)), f, Tail(seq), removed + 1)
         ELSE FlattenLoop(g, f, Tail(seq), removed)

flatten_spatial_structure(g, f) ==
    FlattenLoop(g, f, ByType(g, "IfcSpatialStructureElement"), 0)

(***************************************************************************)
(* deduplicate_geometry.                                                   *)
(***************************************************************************)
\* str(n) for the small counts that occur
NumStr(n) == IF n < 10 THEN <<"0", "1", "2", "3", "4", "5", "6", "7", "8", "9">>[n + 1]
             ELSE "many"

\* hash() of one string, before truncation to the modelled width
StrHash(s) ==
    CASE s = "IfcExtrudedAreaSolid" -> 1
      [] s = "IfcFacetedBrep" -> 2
      [] s = "1.0" -> 3
      [] s = "2.0" -> 5
      [] s = "3.0" -> 4
      [] s = "6" -> 6
      [] s = "None" -> 7
      [] OTHER -> 0

\* hash(tuple(key_parts)): an integer of fixed width computed from the parts
RECURSIVE PolyHash(_, _)
PolyHash(parts, acc) ==
    IF parts = <<>> THEN acc
    ELSE PolyHash(Tail(parts), (acc * 3 + StrHash(Head(parts))) % (2 ^ HashBits))

Hash(parts) == PolyHash(parts, 1)

RECURSIVE KeyParts(_, _)
KeyParts(g, items) ==
    IF items = <<>> THEN <<>>
    ELSE LET item == Head(items)
             item_type == g[item].type
             extra ==
                 IF item_type = "IfcExtrudedAreaSolid"
                 THEN <<g[item].vals["Depth"]>>
                 ELSE IF item_type = "IfcFacetedBrep" /\ g[item].refs["Outer"] # <<>>
                 THEN <<NumStr(Len(g[g[item].refs["Outer"][1]].refs["CfsFaces"]))>>
                 ELSE <<>>
         IN  <<item_type>> \o extra \o KeyParts(g, Tail(items))

\* the key deduplicate_geometry files a shape under
Fingerprint(g, shape) == Hash(KeyParts(g, g[shape].refs["Items"]))

\* first pass: geometry_map, a dict from key to the shapes seen with it
RECURSIVE GroupShapes(_, _, _)
GroupShapes(g, seq, geometry_map) ==
    IF seq = <<>> THEN geometry_map
    ELSE LET shape == Head(seq)
         IN  IF g[shape].refs["Items"] = <<>>
             THEN GroupShapes(g, Tail(seq), geometry_map)
             ELSE LET key == Fingerprint(g, shape)
                  IN  GroupShapes(g, Tail(seq),
                          Put(geometry_map, key,
                              Append(Get(geometry_map, key, <<>>), shape)))

\* the loop over get_inverse(duplicate_shape); a raise stops it where it is
RECURSIVE Repoint(_, _, _, _, _)
Repoint(g, f, invs, duplicate_shape, original_shape) ==
    IF invs = <<>> THEN [g |-> g, ok |-> TRUE]
    ELSE IF Head(invs) \in f THEN [g |-> g, ok |-> FALSE]
    ELSE Repoint(ReplaceAttribute(g, Head(invs), duplicate_shape, original_shape),
                 f, Tail(invs), duplicate_shape, original_shape)

\* a merge that removes the duplicate without re-pointing its referrers
MergeNoRepoint(g, f, duplicate_shape, original_shape) ==
    [g |-> Remove(g, duplicate_shape), ok |-> TRUE]

\* the try block of the second pass for one duplicate
MergeOne(g, f, duplicate_shape, original_shape) ==
    LET r == Repoint(g, f, SortedSeq(Inverse(g, duplicate_shape)),
                     duplicate_shape, original_shape)
    IN  IF r.ok /\ duplicate_shape \notin f
        THEN [g |-> Remove(r.g, duplicate_shape), ok |-> TRUE]
        ELSE [g |-> r.g, ok |-> FALSE]

RECURSIVE MergeLoop(_, _, _, _, _)
MergeLoop(g, f, original_shape, dups, duplicates) ==
    IF dups = <<>> THEN [g |-> g, n |-> duplicates]
    ELSE LET r == MergeOne(g, f, Head(dups), original_shape)
         IN  MergeLoop(r.g, f, original_shape, Tail(dups),
                       IF r.ok THEN duplicates + 1 ELSE duplicates)

RECURSIVE GroupLoop(_, _, _, _)
GroupLoop(g, f, groups, duplicates) ==
    IF groups = <<>> THEN [g |-> g, n |-> duplicates]
    ELSE LET shapes == Head(groups)[2]
         IN  IF Len(shapes) > 1
             THEN LET r == MergeLoop(g, f, shapes[1], Tail(shapes), duplicates)
                  IN  GroupLoop(r.g, f, Tail(groups), r.n)
             ELSE GroupLoop(g, f, Tail(groups), duplicates)

deduplicate_geometry(g, f) ==
    GroupLoop(g, f, GroupShapes(g, ByType(g, "IfcShapeRepresentation"), <<>>), 0)

(***************************************************************************)
(* simplify_geometry.                                                      *)
(***************************************************************************)
BoxFaces == 6       \* faces of the synthesized box: bottom, top, four sides
PerFace == 7        \* entities created per face: 4 points, loop, bound, face

\* ifcopenshell.api geometry.assign_representation: the new representation is
\* appended to the product's definition shape
AssignRepresentation(g, product, body) ==
    LET definition == g[product].refs["Representation"][1]
    IN  [g EXCEPT ![definition].refs["Representations"] = Append(@, body)]

BodyRep(context, item, kind) ==
    [type |-> "IfcShapeRepresentation",
     refs |-> [ContextOfItems |-> <<context>>, Items |-> <<item>>],
     vals |-> [RepresentationIdentifier |-> "Body", RepresentationType |-> kind]]

\* the extrusion branch: six entities under ids n+1 .. n+6, body last
ExtrusionEntities(g, n, context) ==
    LET g1 == Create(g, n + 1, "IfcAxis2Placement2D",
                     [Location |-> <<>>, RefDirection |-> <<>>], NoAttrs)
        g2 == Create(g1, n + 2, "IfcRectangleProfileDef",
                     [Position |-> <<n + 1>>],
                     [ProfileType |-> "AREA", ProfileName |-> "None",
                      XDim |-> "4.0", YDim |-> "0.2"])
        g3 == Create(g2, n + 3, "IfcAxis2Placement3D",
                     [Location |-> <<>>, Axis |-> <<>>, RefDirection |-> <<>>], NoAttrs)
        g4 == Create(g3, n + 4, "IfcDirection", NoAttrs,
                     [DirectionRatios |-> "(0.0, 0.0, 1.0)"])
        g5 == Create(g4, n + 5, "IfcExtrudedAreaSolid",
                     [SweptArea |-> <<n + 2>>, Position |-> <<n + 3>>,
                      ExtrudedDirection |-> <<n + 4>>],
                     [Depth |-> "3.0"])
        b  == BodyRep(context, n + 5, "SweptSolid")
    IN  [g |-> Create(g5, n + 6, b.type, b.refs, b.vals), body |-> n + 6, maxId |-> n + 6]

\* the box branch: per face four points, a loop, a bound and the face, then
\* the shell, the brep and the body
BrepEntity(n, i, context) ==
    LET faces == BoxFaces * PerFace
        base  == n + PerFace * ((i - n - 1) \div PerFace)
        r     == (i - n - 1) % PerFace
    IN  IF i <= n + faces
        THEN CASE r <= 3 -> [type |-> "IfcCartesianPoint", refs |-> NoAttrs,
                             vals |-> [Coordinates |-> "(x, y, z)"]]
               [] r = 4 -> [type |-> "IfcPolyLoop",
                            refs |-> [Polygon |-> <<base + 1, base + 2, base + 3, base + 4>>],
                            vals |-> NoAttrs]
               [] r = 5 -> [type |-> "IfcFaceOuterBound",
                            refs |-> [Bound |-> <<base + 5>>],
                            vals |-> [Orientation |-> "True"]]
               [] OTHER -> [type |-> "IfcFace", refs |-> [Bounds |-> <<base + 6>>],
                            vals |-> NoAttrs]
        ELSE IF i = n + faces + 1
        THEN [type |-> "IfcClosedShell",
              refs |-> [CfsFaces |-> [j \in 1..BoxFaces |-> n + PerFace * j]],
              vals |-> NoAttrs]
        ELSE IF i = n + faces + 2
        THEN [type |-> "IfcFacetedBrep", refs |-> [Outer |-> <<n + faces + 1>>],
              vals |-> NoAttrs]
        ELSE BodyRep(context, n + faces + 2, "Brep")

BrepEntities(g, n, context) ==
    LET last == n + BoxFaces * PerFace + 3
    IN  [g |-> [e \in DOMAIN g \cup ((n + 1)..last) |->
                   IF e \in DOMAIN g THEN g[e] ELSE BrepEntity(n, e, context)],
         body |-> last, maxId |-> last]

\* product.is_a() in ["IfcWall", "IfcSlab", "IfcRoof"]
PlanarTypes == {"IfcWall", "IfcSlab", "IfcRoof"}

\* the first representation of the product identified as "Body", or <<>>
BodyOf(g, product) ==
    LET definition == g[product].refs["Representation"][1]
    IN  SelectSeq(g[definition].refs["Representations"],
                  LAMBDA rep : g[rep].vals["RepresentationIdentifier"] = "Body")

RECURSIVE ProductLoop(_, _, _, _, _, _, _)
ProductLoop(g, k, f, n, context, seq, simplified) ==
    IF seq = <<>> THEN [g |-> g, n |-> simplified, maxId |-> n]
    ELSE LET product == Head(seq)
             skip == ProductLoop(g, k, f, n, context, Tail(seq), simplified)
         IN  IF g[product].refs["Representation"] = <<>> THEN skip
             ELSE IF BodyOf(g, product) = <<>> THEN skip
             ELSE IF g[BodyOf(g, product)[1]].vals["RepresentationType"]
                         = "MappedRepresentation" THEN skip
             ELSE IF k[product].mesh # "mesh" THEN skip
             ELSE LET made == IF g[product].type \in PlanarTypes
                              THEN ExtrusionEntities(g, n, context)
                              ELSE BrepEntities(g, n, context)
                  IN  IF product \in f
                      THEN ProductLoop(made.g, k, f, made.maxId, context,
                                       Tail(seq), simplified)
                      ELSE ProductLoop(AssignRepresentation(made.g, product, made.body),
                                       k, f, made.maxId, context, Tail(seq),
                                       simplified + 1)

\* whether detail_level is a Python str (and so has .lower())
IsStr(v) == v \in {"low", "medium", "high", "none", ""}

\* ok is FALSE when the pass raises: no context in the model, or a detail
\* level that is not a string
simplify_geometry(g, k, f, n, detail_level) ==
    LET contexts == ByType(g, "IfcGeometricRepresentationContext")
    IN  IF contexts = <<>> \/ ~IsStr(detail_level)
        THEN [g |-> g, n |-> 0, maxId |-> n, ok |-> FALSE]
        ELSE LET r == ProductLoop(g, k, f, n, contexts[1],
                                  ByType(g, "IfcProduct"), 0)
             IN  [g |-> r.g, n |-> r.n, maxId |-> r.maxId, ok |-> TRUE]

(***************************************************************************)
(* The files optimize_ifc is given: a project with its owner histories, a  *)
(* storey, optional context, two spaces (the second never aggregated),     *)
(* two materials and two classifications (the second of each never         *)
(* referenced), three property sets (one assigned, one empty but assigned, *)
(* one with a property but not assigned), and up to MaxElems elements each *)
(* with a definition shape, a "Body" representation and its items.         *)
(***************************************************************************)
\* the kinds of element a loaded file holds: type, Depth of its extrusions,
\* number of items, what the kernel reports for it, and whether the storey
\* contains it
ElementKinds ==
    << [type |-> "IfcWall", depth |-> "1.0", items |-> 1, contained |-> TRUE,
        kernel |-> [vol |-> 5, volOk |-> TRUE, mesh |-> "mesh"]],
       [type |-> "IfcWall", depth |-> "1.0", items |-> 1, contained |-> TRUE,
        kernel |-> [vol |-> 100, volOk |-> TRUE, mesh |-> "mesh"]],
       [type |-> "IfcBeam", depth |-> "2.0", items |-> 1, contained |-> FALSE,
        kernel |-> [vol |-> 100, volOk |-> TRUE, mesh |-> "mesh"]],
       [type |-> "IfcBeam", depth |-> "1.0", items |-> 2, contained |-> TRUE,
        kernel |-> [vol |-> 0, volOk |-> TRUE, mesh |-> "empty"]],
       [type |-> "IfcWall", depth |-> "2.0", items |-> 1, contained |-> FALSE,
        kernel |-> [vol |-> 100, volOk |-> FALSE, mesh |-> "raise"]] >>

\* the element lists of the loaded files: one to MaxElems kinds, listed in
\* the order of ElementKinds
ElementSeqs ==
    UNION {{[j \in 1..n |-> ElementKinds[c[j]]] :
               c \in {x \in [1..n -> 1..Len(ElementKinds)] :
                         \A j \in 1..(n - 1) : x[j] <= x[j + 1]}} :
           n \in 1..MaxElems}

FixedIds == 20 + MaxHist    \* ids below the first element's block

\* five ids per element: the element, its definition shape, the body, two items
ElemId(i) == FixedIds + 5 * (i - 1) + 1

\* the entity stored under id in the file described by (elems, nHist, hasCtx, used)
LoadedEntity(id, elems, nHist, hasCtx, used) ==
    LET b  == 1 + MaxHist
        hl == 1 + nHist
        i  == ((id - FixedIds - 1) \div 5) + 1
        o  == (id - FixedIds - 1) % 5
        contained == SelectSeq([j \in 1..Len(elems) |-> j],
                               LAMBDA j : elems[j].contained)
    IN  IF id = 1 THEN [type |-> "IfcProject", refs |-> [OwnerHistory |-> <<2>>],
                        vals |-> [Name |-> "Project", LongName |-> ""]]
        ELSE IF id <= b
        THEN [type |-> "IfcOwnerHistory", refs |-> NoAttrs,
              vals |-> [ChangeAction |-> "NOTDEFINED", CreationDate |-> "1700000000"]]
        ELSE IF id = b + 1
        THEN [type |-> "IfcGeometricRepresentationContext", refs |-> NoAttrs,
              vals |-> [ContextType |-> "Model", CoordinateSpaceDimension |-> "3"]]
        ELSE IF id = b + 2
        THEN [type |-> "IfcBuildingStorey", refs |-> [OwnerHistory |-> <<2>>,
                  Representation |-> <<>>],
              vals |-> [Name |-> "Level 0", Elevation |-> "0.0"]]
        ELSE IF id = b + 3
        THEN [type |-> "IfcRelAggregates",
              refs |-> [OwnerHistory |-> <<hl>>, RelatingObject |-> <<1>>,
                        RelatedObjects |-> IF used THEN <<b + 2, b + 5>> ELSE <<b + 2>>],
              vals |-> [Name |-> "None"]]
        ELSE IF id = b + 4
        THEN [type |-> "IfcRelContainedInSpatialStructure",
              refs |-> [OwnerHistory |-> <<hl>>, RelatingStructure |-> <<b + 2>>,
                        RelatedElements |-> [j \in 1..Len(contained) |->
                                                ElemId(contained[j])]],
              vals |-> [Name |-> "None"]]
        ELSE IF id = b + 5
        THEN [type |-> "IfcSpace", refs |-> [OwnerHistory |-> <<2>>,
                  Representation |-> <<>>],
              vals |-> [Name |-> "Room", LongName |-> "None"]]
        ELSE IF id = b + 6
        THEN [type |-> "IfcMaterial", refs |-> NoAttrs, vals |-> [Name |-> "Concrete"]]
        ELSE IF id = b + 7
        THEN [type |-> "IfcRelAssociatesMaterial",
              refs |-> [OwnerHistory |-> <<hl>>, RelatedObjects |-> <<ElemId(1)>>,
                        RelatingMaterial |-> <<b + 6>>],
              vals |-> [Name |-> "None"]]
        ELSE IF id = b + 8
        THEN [type |-> "IfcPropertySet",
              refs |-> [OwnerHistory |-> <<2>>,
                        HasProperties |-> IF used THEN <<b + 9>> ELSE <<>>],
              vals |-> [Name |-> "Pset_Common"]]
        ELSE IF id = b + 9
        THEN [type |-> "IfcPropertySingleValue", refs |-> NoAttrs,
              vals |-> [Name |-> "IsExternal", NominalValue |-> "False"]]
        ELSE IF id = b + 10
        THEN [type |-> "IfcRelDefinesByProperties",
              refs |-> [OwnerHistory |-> <<hl>>, RelatedObjects |-> <<b + 5, b + 16>>,
                        RelatingPropertyDefinition |-> <<b + 8>>],
              vals |-> [Name |-> "None"]]
        ELSE IF id = b + 11
        THEN [type |-> "IfcClassificationReference", refs |-> NoAttrs,
              vals |-> [Identification |-> "21.22", Name |-> ""]]
        ELSE IF id = b + 12
        THEN [type |-> "IfcRelAssociatesClassification",
              refs |-> [OwnerHistory |-> <<hl>>, RelatedObjects |-> <<ElemId(1)>>,
                        RelatingClassification |-> <<b + 11>>],
              vals |-> [Name |-> "None"]]
        ELSE IF id = b + 13
        THEN [type |-> "IfcPresentationLayerAssignment",
              refs |-> [AssignedItems |-> [j \in 1..Len(elems) |-> ElemId(j) + 2]],
              vals |-> [Name |-> "A-WALL", Description |-> "None"]]
        ELSE IF id = b + 14
        THEN [type |-> "IfcMaterial", refs |-> NoAttrs, vals |-> [Name |-> "Steel"]]
        ELSE IF id = b + 15
        THEN [type |-> "IfcClassificationReference", refs |-> NoAttrs,
              vals |-> [Identification |-> "21.23", Name |-> ""]]
        ELSE IF id = b + 16
        THEN [type |-> "IfcSpace", refs |-> [OwnerHistory |-> <<2>>,
                  Representation |-> <<>>],
              vals |-> [Name |-> "Void", LongName |-> "None"]]
        ELSE IF id = b + 17
        THEN [type |-> "IfcPropertySet",
              refs |-> [OwnerHistory |-> <<2>>, HasProperties |-> <<>>],
              vals |-> [Name |-> "Pset_Empty"]]
        ELSE IF id = b + 18
        THEN [type |-> "IfcRelDefinesByProperties",
              refs |-> [OwnerHistory |-> <<hl>>, RelatedObjects |-> <<ElemId(1)>>,
                        RelatingPropertyDefinition |-> <<b + 17>>],
              vals |-> [Name |-> "None"]]
        ELSE IF id = b + 19
        THEN [type |-> "IfcPropertySet",
              refs |-> [OwnerHistory |-> <<2>>, HasProperties |-> <<b + 9>>],
              vals |-> [Name |-> "Pset_Loose"]]
        ELSE IF o = 0
        THEN [type |-> elems[i].type,
              refs |-> [OwnerHistory |-> <<2 + ((i - 1) % nHist)>>,
                        Representation |-> <<id + 1>>],
              vals |-> [Name |-> "Element", Description |-> "None", Tag |-> "",
                        PredefinedType |-> "NOTDEFINED"]]
        ELSE IF o = 1
        THEN [type |-> "IfcProductDefinitionShape",
              refs |-> [Representations |-> <<id + 1>>], vals |-> [Name |-> "None"]]
        ELSE IF o = 2
        THEN [type |-> "IfcShapeRepresentation",
              refs |-> [ContextOfItems |-> IF hasCtx THEN <<b + 1>> ELSE <<>>,
                        Items |-> IF elems[i].items = 1 THEN <<id + 1>>
                                  ELSE <<id + 1, id + 2>>],
              vals |-> [RepresentationIdentifier |-> "Body",
                        RepresentationType |-> "SweptSolid"]]
        ELSE [type |-> "IfcExtrudedAreaSolid", refs |-> NoAttrs,
              vals |-> [Depth |-> elems[i].depth]]

\* the ids present in that file
LoadedIds(elems, nHist, hasCtx, used) ==
    LET b == 1 + MaxHist
    IN  (1..(1 + nHist))
        \cup (IF hasCtx THEN {b + 1} ELSE {})
        \cup {b + 2, b + 3, b + 5, b + 6, b + 8, b + 11, b + 14, b + 15, b + 16,
              b + 17, b + 18}
        \cup (IF \E j \in 1..Len(elems) : elems[j].contained THEN {b + 4} ELSE {})
        \cup (IF used THEN {b + 7, b + 9, b + 10, b + 12, b + 13, b + 19} ELSE {})
        \cup UNION {{ElemId(j) + o : o \in 0..(2 + elems[j].items)} : j \in 1..Len(elems)}

LoadedGraph(elems, nHist, hasCtx, used) ==
    [id \in LoadedIds(elems, nHist, hasCtx, used) |->
        LoadedEntity(id, elems, nHist, hasCtx, used)]

\* what the geometry kernel answers for each element of that file
LoadedKernel(elems) ==
    [id \in {ElemId(j) : j \in 1..Len(elems)} |->
        elems[CHOOSE j \in 1..Len(elems) : ElemId(j) = id].kernel]

(***************************************************************************)
(* Options.                                                                *)
(***************************************************************************)
\* a pipeline that prunes orphans before small elements
PassOrderSwapped ==
    <<"remove_unused_spaces", "remove_metadata", "remove_empty_attributes",
      "remove_unused_property_sets", "remove_unused_materials",
      "remove_unused_classifications", "remove_orphaned_entities",
      "remove_small_elements", "deduplicate_geometry",
      "flatten_spatial_structure", "simplify_geometry">>

\* the option keys optimize_ifc tests, in the order it tests them
PassOrder ==
    <<"remove_unused_spaces", "remove_metadata", "remove_empty_attributes",
      "remove_unused_property_sets", "remove_unused_materials",
      "remove_unused_classifications", "remove_small_elements",
      "remove_orphaned_entities", "deduplicate_geometry",
      "flatten_spatial_structure", "simplify_geometry">>

\* the stats key each pass reports under
StatsKey(k) ==
    CASE k = "remove_unused_spaces" -> "spaces"
      [] k = "remove_metadata" -> "metadata"
      [] k = "remove_empty_attributes" -> "empty_attrs"
      [] k = "remove_unused_property_sets" -> "psets"
      [] k = "remove_unused_materials" -> "materials"
      [] k = "remove_unused_classifications" -> "classifications"
      [] k = "remove_small_elements" -> "small_elements"
      [] k = "remove_orphaned_entities" -> "orphans"
      [] k = "deduplicate_geometry" -> "duplicate_geo"
      [] k = "flatten_spatial_structure" -> "spatial"
      [] OTHER -> "simplified_geo"

\* the dict used when options is None
DefaultOptions ==
    <<<<"remove_unused_spaces", "True">>, <<"remove_metadata", "True">>,
      <<"remove_empty_attributes", "True">>,
      <<"remove_unused_property_sets", "True">>,
      <<"remove_unused_materials", "True">>,
      <<"remove_unused_classifications", "True">>,
      <<"remove_small_elements", "0.001">>,
      <<"remove_orphaned_entities", "True">>, <<"deduplicate_geometry", "True">>,
      <<"flatten_spatial_structure", "True">>, <<"simplify_geometry", "medium">>>>

\* options after the `if options is None` default
Effective(o) == IF o.none THEN DefaultOptions ELSE o.d

\* the condition optimize_ifc puts in front of the pass keyed k
Enabled(d, k) ==
    CASE k = "remove_small_elements" -> Has(d, k) /\ Get(d, k, "None") # "None"
      [] k = "simplify_geometry" ->
             Truthy(Get(d, k, "None")) /\ Get(d, k, "None") # "none"
      [] OTHER -> Truthy(Get(d, k, "False"))

\* float(v), in units of 0.0001
ToFloat(v) == CASE v = "True" -> 10000 [] v = "False" -> 0 [] OTHER -> 10

\* where control goes after the i-th test: the next pass whose condition
\* holds, or the save
RECURSIVE NextPc(_, _)
NextPc(d, i) ==
    IF i >= Len(PassOrder) THEN "save"
    ELSE IF Enabled(d, PassOrder[i + 1]) THEN PassOrder[i + 1]
    ELSE NextPc(d, i + 1)

Index(k) == CHOOSE i \in 1..Len(PassOrder) : PassOrder[i] = k

\* the values a caller may give under each key
OptionValues(k) ==
    CASE k = "remove_small_elements" -> {"0.001", "False", "None"}
      [] k = "simplify_geometry" -> {"medium", "none", "True"}
      [] k \in {"verbose", "convert_schema"} -> {"True"}
      [] k = "target_schema" -> {"IFC4"}
      [] OTHER -> {"True", "False"}

OptionKeys == Range(PassOrder)
              \cup {"convert_to_3ds", "convert_schema", "target_schema", "verbose"}

OptionPairs == UNION {{<<k, v>> : v \in OptionValues(k)} : k \in OptionKeys}

\* every dict of at most MaxOpts keys, in every order of its keys
OptionDicts ==
    UNION {{d \in [1..n -> OptionPairs] :
               \A i, j \in 1..n : i # j => d[i][1] # d[j][1]} : n \in 0..MaxOpts}

(***************************************************************************)
(* optimize_ifc, step by step.                                             *)
(***************************************************************************)
NotSaved == [ok |-> FALSE, g |-> <<>>]

MaxOf(S) == CHOOSE x \in S : \A y \in S : y <= x

\* the window after IFCOptimizerGUI.__init__: no file chosen, the button
\* enabled, no thread
GuiStart ==
    /\ files = FALSE
    /\ btnEnabled = TRUE
    /\ modal = {}
    /\ threads = <<>>
    /\ queue = <<>>
    /\ printFn = 0

\* the state a call of optimize_ifc starts in, given the file and the options
CallStart(g, k, f, o) ==
    /\ ents = g
    /\ maxId = MaxOf(DOMAIN g)
    /\ kernel = k
    /\ faults = f
    /\ options = o
    /\ pc = "start"
    /\ stats = <<>>
    /\ trace = <<>>
    /\ pre = g
    /\ lastPass = ""
    /\ result = "none"
    /\ failedAt = ""
    /\ saved = NotSaved
    /\ tempFile = FALSE
    /\ run = 1
    /\ firstStats = <<>>
    /\ GuiStart

\* the option records the file-rich specification calls optimize_ifc with:
\* None, and every dict that names one key
GraphRunOptions ==
    {[none |-> TRUE, d |-> <<>>],
     [none |-> FALSE, d |-> <<<<"convert_schema", "True">>, <<"target_schema", "IFC4">>>>]}
    \cup {[none |-> FALSE, d |-> <<DefaultOptions[i]>>] : i \in 1..Len(DefaultOptions)}

\* the loaded files: with a context and every optional record in use, with
\* a context and none in use, and without a context
FileVariants ==
    {[hasCtx |-> TRUE, used |-> TRUE], [hasCtx |-> TRUE, used |-> FALSE],
     [hasCtx |-> FALSE, used |-> FALSE]}

Init ==
    \E elems \in ElementSeqs, nHist \in 1..MaxHist, v \in FileVariants,
       o \in GraphRunOptions :
        CallStart(LoadedGraph(elems, nHist, v.hasCtx, v.used), LoadedKernel(elems),
                  {}, o)

\* an except clause that prints and lets the call go on to its return
RaiseSwallowed(step) ==
    /\ pc' = "export"
    /\ result' = "none"
    /\ failedAt' = step

\* an exception reaches the except clause of optimize_ifc, which re-raises
Raise(step) ==
    /\ pc' = "raised"
    /\ result' = "raised"
    /\ failedAt' = step

\* the step at pc raises and nothing else changes
Fail ==
    /\ Raise(pc)
    /\ UNCHANGED <<guiVars, ents, maxId, kernel, faults, options, stats, trace, pre,
                   lastPass, saved, tempFile, run, firstStats>>

ConvertRequested == ~options.none /\ Truthy(Get(options.d, "convert_schema", "None"))

\* lines 19-22: the schema pre-pass writes temp_converted.ifc, or raises
ConvertSchema ==
    /\ pc = "start"
    /\ ConvertRequested
    /\ \/ /\ Has(options.d, "target_schema")
          /\ pc' = "load"
          /\ tempFile' = TRUE
          /\ UNCHANGED <<guiVars, ents, maxId, kernel, faults, options, stats, trace, pre,
                         lastPass, result, failedAt, saved, run, firstStats>>
       \/ Fail

\* lines 25-44: the file is opened (or cannot be) and the options defaulted
Open ==
    /\ \/ pc = "start" /\ ~ConvertRequested
       \/ pc = "load"
    /\ \/ /\ pc' = NextPc(Effective(options), 0)
          /\ trace' = Append(trace, "load")
          /\ UNCHANGED <<guiVars, ents, maxId, kernel, faults, options, stats, pre,
                         lastPass, result, failedAt, saved, tempFile, run, firstStats>>
       \/ Fail

\* a pass keyed k returned r: its count is stored and control moves on
Returned(k, r) ==
    /\ ents' = r.g
    /\ stats' = Put(stats, StatsKey(k), r.n)
    /\ trace' = Append(trace, StatsKey(k))
    /\ pre' = ents
    /\ lastPass' = StatsKey(k)
    /\ pc' = NextPc(Effective(options), Index(k))
    /\ UNCHANGED <<guiVars, kernel, faults, options, result, failedAt, saved, tempFile, run,
                   firstStats>>

StepSpaces ==
    /\ pc = "remove_unused_spaces"
    /\ Returned(pc, remove_unused_spaces(ents))
    /\ UNCHANGED maxId

StepMetadata ==
    /\ pc = "remove_metadata"
    /\ Returned(pc, remove_metadata(ents))
    /\ UNCHANGED maxId

StepEmptyAttributes ==
    /\ pc = "remove_empty_attributes"
    /\ Returned(pc, remove_empty_attributes(ents))
    /\ UNCHANGED maxId

StepPropertySets ==
    /\ pc = "remove_unused_property_sets"
    /\ Returned(pc, remove_unused_property_sets(ents, faults))
    /\ UNCHANGED maxId

StepMaterials ==
    /\ pc = "remove_unused_materials"
    /\ Returned(pc, remove_unused_materials(ents, faults))
    /\ UNCHANGED maxId

StepClassifications ==
    /\ pc = "remove_unused_classifications"
    /\ Returned(pc, remove_unused_classifications(ents, faults))
    /\ UNCHANGED maxId

StepSmallElements ==
    /\ pc = "remove_small_elements"
    /\ Returned(pc, remove_small_elements(ents, kernel, faults,
                       ToFloat(Get(Effective(options), pc, "None"))))
    /\ UNCHANGED maxId

StepOrphans ==
    /\ pc = "remove_orphaned_entities"
    /\ Returned(pc, remove_orphaned_entities(ents, faults))
    /\ UNCHANGED maxId

StepDeduplicate ==
    /\ pc = "deduplicate_geometry"
    /\ Returned(pc, deduplicate_geometry(ents, faults))
    /\ UNCHANGED maxId

StepFlatten ==
    /\ pc = "flatten_spatial_structure"
    /\ Returned(pc, flatten_spatial_structure(ents, faults))
    /\ UNCHANGED maxId

StepSimplify ==
    /\ pc = "simplify_geometry"
    /\ LET r == simplify_geometry(ents, kernel, faults, maxId,
                                  Get(Effective(options), pc, "None"))
       IN  IF r.ok THEN Returned(pc, r) /\ maxId' = r.maxId ELSE Fail

\* lines 73-92: the model is written, the temporary file deleted and the
\* output opened again; the write or the re-open may fail
Save ==
    /\ pc = "save"
    /\ \/ Fail
       \/ /\ saved' = [ok |-> TRUE, g |-> ents]
          /\ trace' = Append(trace, "save")
          /\ tempFile' = IF Truthy(Get(Effective(options), "convert_schema", "False"))
                         THEN FALSE ELSE tempFile
          /\ \/ pc' = "export" /\ UNCHANGED <<result, failedAt>>
             \/ Raise("reopen")
          /\ UNCHANGED <<guiVars, ents, maxId, kernel, faults, options, stats, pre,
                         lastPass, run, firstStats>>

ExportRequested == Truthy(Get(Effective(options), "convert_to_3ds", "False"))

\* lines 94-100: the mesh export, when asked for, then the return of stats;
\* convert_to_3ds raises when the conversion fails
Export ==
    /\ pc = "export"
    /\ IF ExportRequested
       THEN /\ trace' = Append(trace, "export")
            /\ \/ /\ stats' = Put(stats, "converted_to_3ds", 1)
                  /\ pc' = "done"
                  /\ result' = "returned"
                  /\ UNCHANGED failedAt
               \/ Raise("export") /\ UNCHANGED stats
       ELSE /\ pc' = "done"
            /\ result' = "returned"
            /\ UNCHANGED <<stats, trace, failedAt>>
    /\ UNCHANGED <<guiVars, ents, maxId, kernel, faults, options, pre, lastPass, saved,
                   tempFile, run, firstStats>>

\* the caller runs optimize_ifc again, with the same options, on the file
\* the previous call wrote
Rerun ==
    /\ pc = "done"
    /\ run < MaxRuns
    /\ run' = run + 1
    /\ firstStats' = IF run = 1 THEN stats ELSE firstStats
    /\ ents' = saved.g
    /\ pre' = saved.g
    /\ maxId' = MaxOf(DOMAIN saved.g)
    /\ pc' = "start"
    /\ stats' = <<>>
    /\ trace' = <<>>
    /\ lastPass' = ""
    /\ result' = "none"
    /\ saved' = NotSaved
    /\ UNCHANGED <<guiVars, kernel, faults, options, failedAt, tempFile>>

\* the steps of one call
Call ==
    \/ ConvertSchema
    \/ Open
    \/ StepSpaces
    \/ StepMetadata
    \/ StepEmptyAttributes
    \/ StepPropertySets
    \/ StepMaterials
    \/ StepClassifications
    \/ StepSmallElements
    \/ StepOrphans
    \/ StepDeduplicate
    \/ StepFlatten
    \/ StepSimplify
    \/ Save
    \/ Export

Next == Call \/ Rerun

\* calls on many files, each with None or with a dict of one key
Spec == Init /\ [][Next]_vars

\* the file the option-rich specification optimizes: a wall and a beam
OptionRunElems == <<ElementKinds[1], ElementKinds[3]>>

\* calls with every option dict of at most MaxOpts keys, on that file with
\* and without a representation context
InitOptions ==
    \E v \in {w \in FileVariants : ~w.used},
       o \in {[none |-> TRUE, d |-> <<>>]}
              \cup {[none |-> FALSE, d |-> d] : d \in OptionDicts} :
        CallStart(LoadedGraph(OptionRunElems, MaxHist, v.hasCtx, v.used),
                  LoadedKernel(OptionRunElems), {}, o)

SpecOptions == InitOptions /\ [][Call]_vars

\* the records a guarded library call can be made to fail on: an element (its
\* assign_representation, its removal), a definition shape (its
\* replace_attribute), or the storey, the property set, the second material
\* or the second classification (their removal)
FaultCandidates(elems) ==
    UNION {{ElemId(j), ElemId(j) + 1} : j \in 1..Len(elems)}
    \cup {MaxHist + 3, MaxHist + 9, MaxHist + 15, MaxHist + 16}

\* calls during which the library raises on one record
InitFaults ==
    \E elems \in ElementSeqs, v \in {w \in FileVariants : w.hasCtx},
       o \in GraphRunOptions :
      \E x \in FaultCandidates(elems) :
        CallStart(LoadedGraph(elems, MaxHist, v.hasCtx, v.used), LoadedKernel(elems),
                  {x}, o)

SpecFaults == InitFaults /\ [][Next]_vars

(***************************************************************************)
(* The window (src/gui.py).  The main thread runs the event loop: a click  *)
(* on Optimize, the delivery of a queued signal, the closing of a modal    *)
(* window.  Each click that passes the file test creates one               *)
(* OptimizerThread, whose run() is executed on a thread of its own; its    *)
(* signals reach the slots of the window through the event queue.          *)
(***************************************************************************)
\* the variables of optimize_ifc, which the steps of the window leave alone:
\* the call made by the worker is seen from the window by its outcome only
callVars == <<ents, maxId, kernel, faults, options, pc, stats, trace, pre,
              lastPass, result, failedAt, saved, tempFile, run, firstStats>>

\* a new OptimizerThread, started: run() has not executed a statement yet
NewThread ==
    [pc |-> "run", original_print |-> 0, error |-> FALSE, prints |-> 0,
     emitted |-> 0, handled |-> 0]

\* run_optimizer with the button left enabled
ClickOptimizeKeepEnabled ==
    /\ btnEnabled
    /\ modal = {}
    /\ Len(threads) < MaxRuns
    /\ files
    /\ modal' = {"progress"}
    /\ threads' = Append(threads, NewThread)
    /\ UNCHANGED <<callVars, files, btnEnabled, queue, printFn>>

\* lines 220-267: the clicked slot of optimize_btn.  A disabled button emits
\* no click and an open modal window takes the input of the main window.
ClickOptimize ==
    /\ btnEnabled
    /\ modal = {}
    /\ Len(threads) < MaxRuns
    /\ IF ~files
       THEN /\ modal' = {"warning"}
            /\ UNCHANGED <<callVars, files, btnEnabled, threads, queue, printFn>>
       ELSE /\ btnEnabled' = FALSE
            /\ modal' = {"progress"}
            /\ threads' = Append(threads, NewThread)
            /\ UNCHANGED <<callVars, files, queue, printFn>>

\* the user fills or clears the input and output lines
EditFiles ==
    /\ modal = {}
    /\ files' = ~files
    /\ UNCHANGED <<callVars, btnEnabled, modal, threads, queue, printFn>>

\* the user closes a modal window: a message box, or the progress dialog,
\* which no slot of the window closes
CloseModal ==
    \E m \in modal :
        /\ modal' = modal \ {m}
        /\ UNCHANGED <<callVars, files, btnEnabled, threads, queue, printFn>>

\* lines 26-34: run() keeps the current print and installs thread_print
WorkerReplacePrint(i) ==
    /\ threads[i].pc = "run"
    /\ threads' = [threads EXCEPT ![i].pc = "call",
                                  ![i].original_print = printFn]
    /\ printFn' = i
    /\ UNCHANGED <<callVars, files, btnEnabled, modal, queue>>

\* line 37, while optimize_ifc runs: a print of the pipeline reaches the
\* installed function, which emits progress
WorkerPrint(i) ==
    /\ threads[i].pc = "call"
    /\ threads[i].prints < MaxPrints
    /\ printFn # 0
    /\ threads' = [threads EXCEPT ![i].prints = @ + 1]
    /\ queue' = Append(queue, [signal |-> "progress", thread |-> printFn])
    /\ UNCHANGED <<callVars, files, btnEnabled, modal, printFn>>

\* line 37: optimize_ifc returns the stats
WorkerCallReturns(i) ==
    /\ threads[i].pc = "call"
    /\ threads' = [threads EXCEPT ![i].pc = "restore"]
    /\ UNCHANGED <<callVars, files, btnEnabled, modal, queue, printFn>>

\* line 37: optimize_ifc raises; control goes to the except clause
WorkerCallRaises(i) ==
    /\ threads[i].pc = "call"
    /\ threads' = [threads EXCEPT ![i].pc = "except", ![i].error = TRUE]
    /\ UNCHANGED <<callVars, files, btnEnabled, modal, queue, printFn>>

\* line 40: the kept print is put back
WorkerRestorePrint(i) ==
    /\ threads[i].pc = "restore"
    /\ printFn' = threads[i].original_print
    /\ threads' = [threads EXCEPT ![i].pc = "emit"]
    /\ UNCHANGED <<callVars, files, btnEnabled, modal, queue>>

\* lines 42 and 45: finished is emitted, the last statement of run() on
\* either path; the slot lives in the main thread, so the call is queued
WorkerEmitFinished(i) ==
    /\ threads[i].pc \in {"emit", "except"}
    /\ queue' = Append(queue, [signal |-> "finished", thread |-> i])
    /\ threads' = [threads EXCEPT ![i].pc = "done", ![i].emitted = @ + 1]
    /\ UNCHANGED <<callVars, files, btnEnabled, modal, printFn>>

\* lines 269-277: the progress slot
UpdateProgress ==
    /\ queue # <<>>
    /\ Head(queue).signal = "progress"
    /\ queue' = Tail(queue)
    /\ UNCHANGED <<callVars, files, btnEnabled, modal, threads, printFn>>

\* lines 302-342: the finished slot enables the button, then shows a
\* message box
OnOptimizationFinished ==
    /\ queue # <<>>
    /\ Head(queue).signal = "finished"
    /\ LET i == Head(queue).thread
       IN  /\ threads' = [threads EXCEPT ![i].handled = @ + 1]
           /\ modal' = modal \cup {IF threads[i].error THEN "error" ELSE "info"}
    /\ btnEnabled' = TRUE
    /\ queue' = Tail(queue)
    /\ UNCHANGED <<callVars, files, printFn>>

\* the steps of the worker threads
Worker ==
    \/ \E i \in 1..Len(threads) : WorkerReplacePrint(i)
    \/ \E i \in 1..Len(threads) : WorkerPrint(i)
    \/ \E i \in 1..Len(threads) : WorkerCallReturns(i)
    \/ \E i \in 1..Len(threads) : WorkerCallRaises(i)
    \/ \E i \in 1..Len(threads) : WorkerRestorePrint(i)
    \/ \E i \in 1..Len(threads) : WorkerEmitFinished(i)

\* the slots and user actions run by the event loop
MainThread ==
    \/ ClickOptimize
    \/ EditFiles
    \/ CloseModal
    \/ UpdateProgress
    \/ OnOptimizationFinished

NextGui == MainThread \/ Worker

\* the window, started on no file yet
InitGui ==
    CallStart(LoadedGraph(<<ElementKinds[1]>>, 1, TRUE, FALSE),
              LoadedKernel(<<ElementKinds[1]>>), {}, [none |-> TRUE, d |-> <<>>])

SpecGui == InitGui /\ [][NextGui]_vars

(***************************************************************************)
(* Properties.                                                             *)
(***************************************************************************)
\* the entities the last executed pass removed
RemovedByLastPass == DOMAIN pre \ DOMAIN ents

\* e held f before the last pass, still exists, and no longer holds anything
\* in some place where it held f: the reference was dropped, not redirected
Dropped(e, f) ==
    /\ e \in DOMAIN ents
    /\ \E a \in DOMAIN pre[e].refs :
           /\ f \in Range(pre[e].refs[a])
           /\ Len(ents[e].refs[a]) < Len(pre[e].refs[a])

\* C1: in every state of a call, so after every pass whatever passes are
\* enabled, each reference held by an entity of the model points to an entity
\* of the model.
C1_NoDanglingReference ==
    \A e \in DOMAIN ents : Targets(ents, e) \subseteq DOMAIN ents

\* C1 witness: a pass has just removed an entity that another, surviving
\* entity referenced.
C1_Witness ==
    /\ lastPass # ""
    /\ \E f \in RemovedByLastPass :
           \E e \in Inverse(pre, f) : e \in DOMAIN ents

\* C7: whenever a pass has removed an entity, every referrer it had that is
\* not of an exempted kind was removed too or had its reference redirected;
\* no surviving referrer simply lost the reference.
C7_NoReferencedRemoval ==
    lastPass # "" =>
        \A f \in RemovedByLastPass :
            \A e \in Inverse(pre, f) :
                pre[e].type \notin ExemptKinds => ~Dropped(e, f)

\* the order in which the passes are documented to run, by stats key
ExpectedOrder ==
    <<"spaces", "metadata", "empty_attrs", "psets", "materials",
      "classifications", "small_elements", "orphans", "duplicate_geo",
      "spatial", "simplified_geo">>

Rank(name) == CHOOSE i \in 1..Len(ExpectedOrder) : ExpectedOrder[i] = name

\* the passes executed so far in this call, in execution order
PassTrace == SelectSeq(trace, LAMBDA name : name \in Range(ExpectedOrder))

\* C2: whatever the order in which the option keys were supplied, the passes
\* that execute do so in the fixed order spaces, metadata, empty attributes,
\* property sets, materials, classifications, small elements, orphans,
\* deduplication, flattening, simplification.
C2_FixedPassOrder ==
    \A i, j \in 1..Len(PassTrace) :
        i < j => Rank(PassTrace[i]) < Rank(PassTrace[j])

\* C2 witness: the caller supplied the orphan key before the small-element
\* key, and small-element pruning has run before orphan pruning.
C2_Witness ==
    /\ ~options.none
    /\ Len(options.d) = 2
    /\ options.d[1][1] = "remove_orphaned_entities"
    /\ options.d[2][1] = "remove_small_elements"
    /\ PassTrace = <<"small_elements", "orphans">>

\* C3: a call never fails because a pass raised: the exception of a pass is
\* absorbed by the pipeline, which goes on and returns the statistics.
C3_PassFailureAbsorbed ==
    failedAt \notin Range(PassOrder)

\* C4: when the pipeline is run again with the same options on the file the
\* first run wrote, every pass of the second run reports zero.
C4_SecondRunZero ==
    (run >= 2 /\ result = "returned") =>
        \A i \in 1..Len(stats) :
            stats[i][1] \in Range(ExpectedOrder) => stats[i][2] = 0

\* the shape representations deduplicate_geometry files under a fingerprint
Shapes(g) ==
    {x \in DOMAIN g : /\ g[x].type = "IfcShapeRepresentation"
                      /\ g[x].refs["Items"] # <<>>}

\* the item-type sequence of a shape representation
TypeSeq(g, x) ==
    [i \in 1..Len(g[x].refs["Items"]) |-> g[g[x].refs["Items"][i]].type]

\* the earliest-seen shape with the fingerprint of x, before the pass
Survivor(x) ==
    Min({y \in Shapes(pre) : Fingerprint(pre, y) = Fingerprint(pre, x)})

\* C5: after deduplicate_geometry, of two shapes with the same fingerprint and
\* the same item types only the earlier-seen one is left; a removed shape had
\* an earlier shape of the same fingerprint, which is still there, and every
\* entity that referenced the removed shape references that one instead, in
\* the same place; so shapes of different fingerprints are never merged.
C5_DeduplicationMerges ==
    lastPass = "duplicate_geo" =>
        /\ \A x, y \in Shapes(pre) :
               ( /\ x < y
                 /\ Fingerprint(pre, x) = Fingerprint(pre, y)
                 /\ TypeSeq(pre, x) = TypeSeq(pre, y) )
               => (y \notin DOMAIN ents /\ Survivor(y) \in DOMAIN ents)
        /\ \A y \in RemovedByLastPass :
               /\ y \in Shapes(pre)
               /\ Survivor(y) # y
               /\ Survivor(y) \in DOMAIN ents
               /\ \A e \in Inverse(pre, y) :
                      /\ e \in DOMAIN ents
                      /\ \A a \in DOMAIN pre[e].refs :
                             /\ Len(ents[e].refs[a]) = Len(pre[e].refs[a])
                             /\ \A i \in 1..Len(pre[e].refs[a]) :
                                    pre[e].refs[a][i] = y
                                    => ents[e].refs[a][i] = Survivor(y)

\* C5 witness: deduplication has removed a referenced shape whose item types
\* are those of the shape that survives it.
C5_Witness ==
    /\ lastPass = "duplicate_geo"
    /\ \E y \in RemovedByLastPass :
           /\ Inverse(pre, y) # {}
           /\ TypeSeq(pre, y) = TypeSeq(pre, Survivor(y))

\* C6: deduplicate_geometry removes a shape only when the shape it is merged
\* into has the same number of items and the same item types.
C6_SecondaryComparison ==
    lastPass = "duplicate_geo" =>
        \A y \in RemovedByLastPass : TypeSeq(pre, y) = TypeSeq(pre, Survivor(y))

\* what the caller is documented to switch a pass on with: the key present
\* and its value neither false nor the "none" choice
DocumentedOn(d, k) == Has(d, k) /\ Get(d, k, "None") \notin {"False", "None", "none"}

\* C8: once every pass condition has been tested, the passes that ran are
\* exactly those whose key is present with a true or parameter value; a false
\* value or an absent key disables the pass, and other keys change nothing.
C8_RunsIffEnabled ==
    pc = "save" =>
        \A i \in 1..Len(ExpectedOrder) :
            (ExpectedOrder[i] \in Range(trace))
            <=> DocumentedOn(Effective(options), DefaultOptions[i][1])

\* C9: a record whose processing failed during a pass, and its referrers, are
\* as before the pass: a duplicate shape that deduplication did not remove is
\* still referenced by every surviving entity that referenced it, and an
\* element whose new representation could not be assigned keeps its definition
\* shape unchanged.
C9_FailedEntityUntouched ==
    /\ lastPass = "duplicate_geo" =>
           \A x \in Shapes(pre) \cap DOMAIN ents :
               \A e \in Inverse(pre, x) \cap DOMAIN ents : x \in Targets(ents, e)
    /\ lastPass = "simplified_geo" =>
           \A x \in faults \cap DOMAIN pre :
               /\ ents[x] = pre[x]
               /\ \A y \in Targets(pre, x) : ents[y] = pre[y]

\* C10: the mesh export runs only when requested, after the passes and the
\* save, as the last step of the call, and its failure never makes the call
\* fail.
C10_ExportIndependent ==
    /\ "export" \in Range(trace) =>
           /\ ExportRequested
           /\ saved.ok
           /\ trace[Len(trace)] = "export"
    /\ failedAt # "export"

\* the steps whose failure is fatal to the call: the schema pre-pass and the
\* load (both before the first pass) and the write of the output
FatalSteps == {"start", "load", "save"}

\* the passes whose condition holds under the options of the call
EnabledPasses ==
    {StatsKey(PassOrder[i]) : i \in {j \in 1..Len(PassOrder) :
                                       Enabled(Effective(options), PassOrder[j])}}

\* C11: when the schema pre-pass, the load or the write of the output fails,
\* the call ends raising: nothing was returned, no pass ran after the failure
\* (none at all when the failure came before the passes), and the output was
\* not written; and an output that was written was written after every
\* enabled pass had run.
C11_FatalFailureAborts ==
    /\ failedAt \in FatalSteps =>
           /\ pc = "raised"
           /\ result = "raised"
           /\ ~saved.ok
           /\ failedAt \in {"start", "load"} => (PassTrace = <<>> /\ stats = <<>>)
    /\ saved.ok => EnabledPasses \subseteq Range(trace)

\* C11 witness: the write of the output failed after a pass had run.
C11_Witness ==
    /\ failedAt = "save"
    /\ result = "raised"
    /\ PassTrace # <<>>

\* the count the last executed pass returned, as stored in stats
LastCount == Get(stats, lastPass, 0)

\* the records of type T (or a subtype) before the last pass
Before(T) == {e \in DOMAIN pre : IsA(pre, e, T)}

\* the record type pruned by the pass that reports under the stats key p
PrunedKind(p) ==
    IF p = "materials" THEN "IfcMaterial" ELSE "IfcClassificationReference"

\* C12: remove_unused_materials and remove_unused_classifications remove
\* exactly the materials (classification references) that had no inverse
\* reference, nothing else, and return the number of records removed.
C12_UnreferencedPruned ==
    lastPass \in {"materials", "classifications"} =>
        /\ RemovedByLastPass =
               {m \in Before(PrunedKind(lastPass)) : Inverse(pre, m) = {}}
        /\ LastCount = Cardinality(RemovedByLastPass)

\* C12 witness: material pruning removed an unreferenced material and kept a
\* referenced one.
C12_Witness ==
    /\ lastPass = "materials"
    /\ \E m \in Before("IfcMaterial") : m \notin DOMAIN ents
    /\ \E m \in Before("IfcMaterial") : m \in DOMAIN ents /\ Inverse(pre, m) # {}

\* the threshold optimize_ifc hands to remove_small_elements
MinVolume == ToFloat(Get(Effective(options), "remove_small_elements", "None"))

\* C13: remove_small_elements removes exactly the elements that have a
\* representation and a computed volume below the threshold, a volume of
\* zero included; it keeps the elements at or above the threshold and those
\* whose volume computation fails, and returns the number removed.
C13_SmallElementsPruned ==
    lastPass = "small_elements" =>
        /\ RemovedByLastPass =
               {e \in Before("IfcElement") :
                    /\ pre[e].refs["Representation"] # <<>>
                    /\ kernel[e].volOk
                    /\ kernel[e].vol < MinVolume}
        /\ LastCount = Cardinality(RemovedByLastPass)

\* C14: remove_metadata leaves exactly one IfcOwnerHistory when there was at
\* least one, the first in file order; it removes the others and nothing
\* else, and returns the number removed.
C14_MetadataTrimmed ==
    lastPass = "metadata" =>
        /\ Before("IfcOwnerHistory") # {} =>
               {h \in DOMAIN ents : ents[h].type = "IfcOwnerHistory"}
                   = {Min(Before("IfcOwnerHistory"))}
        /\ RemovedByLastPass = Before("IfcOwnerHistory") \ {Min(Before("IfcOwnerHistory"))}
        /\ LastCount = Cardinality(RemovedByLastPass)

\* C14 witness: remove_metadata has removed an owner history and the first
\* one is still in the model.
C14_Witness ==
    /\ lastPass = "metadata"
    /\ LastCount >= 1
    /\ Cardinality(Before("IfcOwnerHistory")) >= 2
    /\ Min(Before("IfcOwnerHistory")) \in DOMAIN ents

\* C15: remove_unused_spaces removes a space if and only if it has no inverse
\* reference or only ones of an exempted kind (placement, property
\* assignment); a space with another referrer stays; the pass removes
\* nothing else and returns the number of spaces removed.
C15_UnusedSpacesPruned ==
    lastPass = "spaces" =>
        /\ RemovedByLastPass =
               {s \in Before("IfcSpace") :
                    \A ref \in Inverse(pre, s) : pre[ref].type \in ExemptKinds}
        /\ LastCount = Cardinality(RemovedByLastPass)

\* C15 witness: the pass removed a space referenced only by a property
\* assignment and kept a space that the project aggregates.
C15_Witness ==
    /\ lastPass = "spaces"
    /\ \E s \in Before("IfcSpace") :
           /\ s \notin DOMAIN ents
           /\ Inverse(pre, s) # {}
    /\ \E s \in Before("IfcSpace") : s \in DOMAIN ents

\* C16: remove_unused_property_sets removes a property set if and only if it
\* has no property and no inverse reference; a set with a property or with a
\* referrer (a property assignment included) stays; the pass removes nothing
\* else and returns the number of sets removed.
C16_UnusedPropertySetsPruned ==
    lastPass = "psets" =>
        /\ RemovedByLastPass =
               {p \in Before("IfcPropertySet") :
                    /\ pre[p].refs["HasProperties"] = <<>>
                    /\ Inverse(pre, p) = {}}
        /\ LastCount = Cardinality(RemovedByLastPass)

\* C16 witness: the pass removed a property set and kept an empty one that a
\* property assignment references.
C16_Witness ==
    /\ lastPass = "psets"
    /\ \E p \in Before("IfcPropertySet") : p \notin DOMAIN ents
    /\ \E p \in Before("IfcPropertySet") :
           /\ p \in DOMAIN ents
           /\ pre[p].refs["HasProperties"] = <<>>
           /\ \E r \in Inverse(pre, p) : pre[r].type = "IfcRelDefinesByProperties"

\* the entities remove_orphaned_entities collects: not the project, not an
\* owner history, and without inverse reference before the pass
OrphansBefore ==
    {e \in DOMAIN pre : /\ pre[e].type \notin {"IfcProject", "IfcOwnerHistory"}
                        /\ Inverse(pre, e) = {}}

\* C17: remove_orphaned_entities removes no project and no owner history; it
\* removes the other entities that had no inverse reference (all of them
\* but those whose removal failed) and nothing else; and the count it
\* returns is the number of entities that left the model.
C17_OrphansCounted ==
    lastPass = "orphans" =>
        /\ RemovedByLastPass \subseteq OrphansBefore
        /\ OrphansBefore \ faults \subseteq RemovedByLastPass
        /\ LastCount = Cardinality(RemovedByLastPass)

\* the elements a spatial container holds: those listed by the containment
\* relationships that name it
ContainedIn(g, s) ==
    UNION {Range(g[r].refs["RelatedElements"]) : r \in ContainsElements(g, s)}

\* C18: flatten_spatial_structure removes a spatial container if and only if
\* it holds no contained element; it removes nothing else and returns the
\* number of containers removed.
C18_EmptyContainersFlattened ==
    lastPass = "spatial" =>
        /\ RemovedByLastPass =
               {s \in Before("IfcSpatialStructureElement") :
                    ContainedIn(pre, s) = {}}
        /\ LastCount = Cardinality(RemovedByLastPass)

\* the empty sentinels: the empty string, zero, the not-defined marker
Sentinels == {"", "0", "0.0", "NOTDEFINED"}

\* the scalar attributes of the model before the last pass, as <<id, name>>
AttrsBefore == UNION {{<<e, a>> : a \in DOMAIN pre[e].vals} : e \in DOMAIN pre}

\* C19: remove_empty_attributes sets to null exactly the attributes that held
\* an empty sentinel, leaves the attributes that were null or held another
\* value as they were, and returns the number of attributes it set to null;
\* a null attribute is not counted.
C19_ClearedCounted ==
    lastPass = "empty_attrs" =>
        /\ \A p \in AttrsBefore :
               ents[p[1]].vals[p[2]] =
                   IF pre[p[1]].vals[p[2]] \in Sentinels THEN "None"
                   ELSE pre[p[1]].vals[p[2]]
        /\ LastCount =
               Cardinality({p \in AttrsBefore : pre[p[1]].vals[p[2]] \in Sentinels})

\* the threads whose run() has not yet emitted finished
Running == {i \in 1..Len(threads) : threads[i].pc # "done"}

\* the threads whose finished signal the window has not handled yet
Unhandled == {i \in 1..Len(threads) : threads[i].handled = 0}

\* C20: at most one OptimizerThread is running at any time; the Optimize
\* button is disabled from the start of a run until the finished signal of
\* that run is handled, and enabled again once it is; and every run emits
\* finished exactly once, whether optimize_ifc returned or raised.
C20_OneThreadAtATime ==
    /\ Cardinality(Running) <= 1
    /\ btnEnabled <=> Unhandled = {}
    /\ \A i \in 1..Len(threads) :
           /\ threads[i].emitted = (IF threads[i].pc = "done" THEN 1 ELSE 0)
           /\ threads[i].handled <= threads[i].emitted

\* C20 witness: a first run failed, its finished signal was handled and the
\* button enabled again; a second run is under way with the button disabled.
C20_Witness ==
    /\ Len(threads) = 2
    /\ threads[1].error
    /\ threads[1].emitted = 1
    /\ threads[1].handled = 1
    /\ threads[2].pc = "call"
    /\ ~btnEnabled

\* the threads whose run() has returned and after which no later thread has
\* yet touched print
LastReturned ==
    {i \in 1..Len(threads) :
         /\ threads[i].pc = "done"
         /\ \A j \in (i + 1)..Len(threads) : threads[j].pc = "run"}

\* C21: once run() has returned, whether optimize_ifc returned or raised,
\* builtins.print is the function it was when run() started.
C21_PrintRestored ==
    \A i \in LastReturned : printFn = threads[i].original_print

\* C22: when schema conversion is enabled, temp_converted.ifc does not exist
\* once optimize_ifc has finished, whether it returned or raised, wherever
\* the failure came from.
C22_TempFileRemoved ==
    (ConvertRequested /\ pc \in {"done", "raised"}) => ~tempFile

====
